---- MODULE Spec2Model ----
(***************************************************************************)
(* CrateHistorian (services/core/CrateHistorian/crate_historian/           *)
(* historian.py): batch ingestion into the Crate tables topic, meta and    *)
(* the category tables, the in-memory topic and metadata caches, and the   *)
(* range query.                                                            *)
(*                                                                         *)
(* Storage is the Crate server behind cursor.execute.  A statement either  *)
(* returns, and then it has been applied, or it raises ConnectionError,    *)
(* and then it has not been applied.  The tables have the keys that the    *)
(* ON DUPLICATE KEY clauses of the statements refer to: topic(id),         *)
(* meta(topic_id) and (topic_id, ts) in every category table.              *)
(*                                                                         *)
(* A topic name is the sequence of its path segments ("a/b" is             *)
(* <<"a", "b">>); a Python dict is a function whose DOMAIN is the set of   *)
(* keys present.                                                           *)
(***************************************************************************)
EXTENDS Integers, Sequences, FiniteSets, TLC

\* ---------------------------------------------------------------- bounds
\* Longest batch handed to publish_to_historian.
MaxBatch == 2

\* ---------------------------------------------------------------- inputs
\* The category tables that exist in storage (query_historian, line 401).
Categories == {"analysis", "device", "record", "datalogger"}

\* The data tables the schema provisioner creates at startup: one per
\* category.  An INSERT into any other table name is rejected.
SchemaTables == {"analysis", "device", "record", "datalogger"}

\* Metadata payloads.
MetaFloat == [type |-> "float"]
MetaFloatF == [type |-> "float", units |-> "F"]
MetaInteger == [type |-> "integer"]

\* Raw values: numbers, and a string that is not a number.
Num(n) == [num |-> n]
Flt(n) == [float |-> n]
Str(s) == [str |-> s]

Point(ts, source, topic, value, meta) ==
    [timestamp |-> ts, source |-> source, topic |-> topic,
     value |-> value, meta |-> meta]

\* The points a batch is drawn from: two spellings of one topic that meet
\* on one (category, topic_id, timestamp) key with different values and
\* metadata, a second timestamp, a second topic published as a log, a
\* value that cannot be coerced, and a category that has no table.
Points ==
    { Point(1, "scrape", <<"a">>, Num(1), MetaFloat),
      Point(1, "device", <<"A">>, Num(2), MetaFloatF),
      Point(2, "scrape", <<"a">>, Num(1), MetaFloat),
      Point(1, "log", <<"b">>, Num(2), MetaFloat),
      Point(2, "scrape", <<"b">>, Str("x"), MetaInteger),
      Point(2, "bogus", <<"b">>, Num(1), MetaFloat) }

Batches == UNION { [1..n -> Points] : n \in 0..MaxBatch }

\* Python's None where the other values are records, and an int that may be
\* None.
None == [none |-> TRUE]
IntOf(n) == [int |-> n]

\* The arguments a query is drawn from.
QueryTopics == { <<"device", "a">>, <<"device", "A">>, <<"device", "b">>,
                 <<"bogus", "a">> }
Starts == { None, [iso |-> 1] }
Ends == { None, [iso |-> 1], [iso |-> 2] }
Skips == { 0, 1 }
Counts == { None, IntOf(1), IntOf(2) }
Orders == { "FIRST_TO_LAST", "LAST_TO_FIRST" }
Requests == [topic : QueryTopics, start : Starts, end : Ends, skip : Skips,
             count : Counts, order : Orders]

\* ------------------------------------------------------- pure functions
\* str.lower() on one path segment.
LowerSegment(s) ==
    CASE s = "A" -> "a"
      [] s = "B" -> "b"
      [] OTHER -> s

\* topic.lower()
Lower(name) == [k \in DOMAIN name |-> LowerSegment(name[k])]

RECURSIVE Join(_)
\* The name as one string, segments joined by "/".
Join(name) ==
    IF Len(name) = 0 THEN ""
    ELSE IF Len(name) = 1 THEN name[1]
    ELSE name[1] \o "/" \o Join(Tail(name))

\* hashlib.md5(s).hexdigest(): a function of the string alone, without
\* collisions on the names of the model.
Md5(s) == "md5(" \o s \o ")"

\* Variant: the id is the hash of the name as published.
TopicId_CaseSensitive(name) == Md5(Join(name))

\* topic_id = hashlib.md5(topic_lower).hexdigest()
TopicId(name) == Md5(Join(Lower(name)))

\* Variant: the source is used as the table name as it comes.
Source_Raw(x) == x.source

\* source after the aliases scrape -> device and log -> datalogger.
Source(x) ==
    IF x.source = "scrape" THEN "device"
    ELSE IF x.source = "log" THEN "datalogger"
    ELSE x.source

\* int(value) and float(value) are defined on numbers only.
IsNumber(v) == "num" \in DOMAIN v \/ "float" \in DOMAIN v
NumberOf(v) == IF "num" \in DOMAIN v THEN v.num ELSE v.float

\* meta.get('type', None) is 'integer' or 'float' and the conversion raises
\* ValueError.
CoercionFails(x) ==
    /\ "type" \in DOMAIN x.meta
    /\ x.meta["type"] \in {"integer", "float"}
    /\ ~IsNumber(x.value)

\* value after the coercion of lines 184-189.
Value(x) ==
    IF "type" \in DOMAIN x.meta /\ x.meta["type"] = "integer"
        THEN Num(NumberOf(x.value))
    ELSE IF "type" \in DOMAIN x.meta /\ x.meta["type"] = "float"
        THEN Flt(NumberOf(x.value))
    ELSE x.value

\* utils.format_timestamp(ts): the ISO text of the instant.
FormatTimestamp(ts) == [iso |-> ts]

\* utils.parse_timestamp_string(s)
ParseTimestamp(s) == s.iso

\* jsonapi.dumps(meta) and jsonapi.loads(blob)
Dumps(m) == [json |-> m]
Loads(blob) == blob.json

\* jsonapi.loads raises ValueError on a text that is not JSON.
LoadsFails(blob) == "json" \notin DOMAIN blob

\* d[k] = v on a dict.
Put(d, k, v) == [j \in DOMAIN d \cup {k} |-> IF j = k THEN v ELSE d[j]]

\* The empty dict.
EmptyDict == [j \in {} |-> 0]

\* ----------------------------------------------------------------- state
VARIABLES
    topic,              \* table topic(id, name)
    meta,               \* table meta(topic_id, meta_data)
    tables,             \* rows (topic_id, ts, result) of the category tables
    _topic_id_map,      \* dict: lower-case name -> topic id
    _topic_name_map,    \* dict: lower-case name -> name as last published
    _topic_meta,        \* dict: topic id -> metadata
    _connection,        \* "None" or the connection handle
    pc,                 \* where the agent is
    to_publish_list,    \* argument of the publish call in progress
    i,                  \* position of the for loop in to_publish_list
    cursor,             \* cursor of the last publish call
    status,             \* "ok", or the exception the call in progress raised
    handled,            \* report_all_handled calls of the call in progress
    executed,           \* statements the call in progress passed to execute
    lost_after,         \* points stored when the call lost the connection
    retry_of,           \* lost_after of the call this call redelivers
    request,            \* arguments of the query call in progress
    response            \* its result

vars == <<topic, meta, tables, _topic_id_map, _topic_name_map, _topic_meta,
          _connection, pc, to_publish_list, i, cursor, status, handled,
          executed, lost_after, retry_of, request, response>>

storage == <<topic, meta, tables>>
caches == <<_topic_id_map, _topic_name_map, _topic_meta>>
call == <<to_publish_list, i, cursor, status, handled, executed>>
upstream == <<lost_after, retry_of>>
query == <<request, response>>

NoRequest == None
NoResponse == None

\* CrateHistorian.__init__: nothing is cached and nothing is connected; the
\* storage of a new installation is empty.
Init ==
    /\ topic = {}
    /\ meta = {}
    /\ tables = {}
    /\ _topic_id_map = EmptyDict
    /\ _topic_name_map = EmptyDict
    /\ _topic_meta = EmptyDict
    /\ _connection = "None"
    /\ pc = "new"
    /\ to_publish_list = <<>>
    /\ i = 0
    /\ cursor = "None"
    /\ status = "ok"
    /\ handled = 0
    /\ executed = <<>>
    /\ lost_after = -1
    /\ retry_of = -1
    /\ request = NoRequest
    /\ response = NoResponse

\* ----------------------------------------------------------- statements
\* Variant: a plain INSERT on a table that does not reject the second row
\* of an id.
InsertTopic_Plain(rows, id, name) == rows \cup {[id |-> id, name |-> name]}

\* INSERT INTO topic(id, name) VALUES(?,?) ON DUPLICATE KEY UPDATE name=name
InsertTopic(rows, id, name) ==
    IF \E r \in rows : r.id = id THEN rows
    ELSE rows \cup {[id |-> id, name |-> name]}

\* Variant: the new spelling is inserted as a row of its own.
UpdateTopic_Insert(rows, name, id) == rows \cup {[id |-> id, name |-> name]}

\* UPDATE topic set name=? WHERE id=?
UpdateTopic(rows, name, id) ==
    {IF r.id = id THEN [r EXCEPT !.name = name] ELSE r : r \in rows}

\* Variant: ON DUPLICATE KEY UPDATE result = VALUES(result), the stored value
\* is replaced.
InsertData_Overwrite(rows, table_name, topic_id, ts, data) ==
    { r \in rows : ~(/\ r.table = table_name
                     /\ r.topic_id = topic_id
                     /\ r.ts = FormatTimestamp(ts)) }
        \cup {[table |-> table_name, topic_id |-> topic_id,
                ts |-> FormatTimestamp(ts), result |-> data]}

\* Variant: a plain INSERT into a table without a key, every execution adds
\* a row.
InsertData_NoKey(rows, table_name, topic_id, ts, data) ==
    rows \cup {[table |-> table_name, topic_id |-> topic_id,
                ts |-> FormatTimestamp(ts), result |-> data,
                copy |-> Cardinality({ r \in rows :
                                        /\ r.table = table_name
                                        /\ r.topic_id = topic_id
                                        /\ r.ts = FormatTimestamp(ts) })]}

\* INSERT INTO <table_name> (topic_id, ts, result) VALUES(?, ?, ?)
\* ON DUPLICATE KEY UPDATE result=result
InsertData(rows, table_name, topic_id, ts, data) ==
    IF \E r \in rows : /\ r.table = table_name
                       /\ r.topic_id = topic_id
                       /\ r.ts = FormatTimestamp(ts)
        THEN rows
    ELSE rows \cup {[table |-> table_name, topic_id |-> topic_id,
                     ts |-> FormatTimestamp(ts), result |-> data]}

\* INSERT INTO meta(topic_id, meta_data) VALUES(?,?)
\* ON DUPLICATE KEY UPDATE meta_data=meta_data
InsertMeta(rows, topic_id, blob) ==
    IF \E r \in rows : r.topic_id = topic_id THEN rows
    ELSE rows \cup {[topic_id |-> topic_id, meta_data |-> blob]}

\* The test of lines 215-218: old_meta is the dict cached for the topic id
\* (or {}), and it is old_meta that is asked for the key topic_id.
MetaChanged(cache, topic_id, m) ==
    LET old_meta == IF topic_id \in DOMAIN cache THEN cache[topic_id]
                    ELSE EmptyDict
    IN  \/ topic_id \notin DOMAIN old_meta
        \/ old_meta[topic_id] # m

\* ------------------------------------------------- publish_to_historian
\* The point the for loop is at.
x == to_publish_list[i]

Log(stmt) == Append(executed, [point |-> i, stmt |-> stmt])

\* After the last statement of a point: the next point, or the end of the
\* loop.
NextPoint ==
    /\ i' = i + 1
    /\ pc' = IF i = Len(to_publish_list) THEN "ack" ELSE "resolve"

\* Variant: a call with an empty list returns at once, without a report.
PublishStart_SkipEmpty(b) ==
    /\ pc = "idle"
    /\ to_publish_list' = b
    /\ i' = 1
    /\ _connection' = "conn"
    /\ cursor' = "open"
    /\ status' = "ok"
    /\ handled' = 0
    /\ executed' = <<>>
    /\ lost_after' = -1
    /\ retry_of' = -1
    /\ pc' = IF Len(b) = 0 THEN "finally" ELSE "resolve"
    /\ UNCHANGED <<storage, caches, query>>

\* Lines 167-170: the call starts, the connection is made when there is
\* none, and the cursor is opened.
PublishStart(b) ==
    /\ pc = "idle"
    /\ to_publish_list' = b
    /\ i' = 1
    /\ _connection' = "conn"
    /\ cursor' = "open"
    /\ status' = "ok"
    /\ handled' = 0
    /\ executed' = <<>>
    /\ lost_after' = -1
    /\ retry_of' = -1
    /\ pc' = IF Len(b) = 0 THEN "ack" ELSE "resolve"
    /\ UNCHANGED <<storage, caches, query>>

\* Variant: the ValueError is caught around the conversion and the loop
\* goes on with the next point.
CoercionError_Skip ==
    /\ pc = "resolve"
    /\ CoercionFails(x)
    /\ NextPoint
    /\ UNCHANGED <<storage, caches, _connection, to_publish_list, cursor,
                   status, handled, executed, upstream, query>>

\* Lines 184-189: int(value) or float(value) raises ValueError, which no
\* except clause of the call catches.
CoercionError ==
    /\ pc = "resolve"
    /\ CoercionFails(x)
    /\ status' = "ValueError"
    /\ pc' = "finally"
    /\ UNCHANGED <<storage, caches, _connection, to_publish_list, i, cursor,
                   handled, executed, upstream, query>>

\* Variant: the name is cached and the INSERT into topic is left for later.
TopicInsert_Deferred ==
    /\ pc = "resolve"
    /\ ~CoercionFails(x)
    /\ Lower(x.topic) \notin DOMAIN _topic_name_map
    /\ _topic_name_map' = Put(_topic_name_map, Lower(x.topic), x.topic)
    /\ pc' = "data"
    /\ UNCHANGED <<storage, _topic_id_map, _topic_meta, _connection,
                   to_publish_list, i, cursor, status, handled, executed,
                   upstream, query>>

\* Lines 198-204: no name is cached for the key.
TopicInsert ==
    /\ pc = "resolve"
    /\ ~CoercionFails(x)
    /\ Lower(x.topic) \notin DOMAIN _topic_name_map
    /\ topic' = InsertTopic(topic, TopicId(x.topic), x.topic)
    /\ _topic_name_map' = Put(_topic_name_map, Lower(x.topic), x.topic)
    /\ executed' = Log("INSERT topic")
    /\ pc' = "data"
    /\ UNCHANGED <<meta, tables, _topic_id_map, _topic_meta, _connection,
                   to_publish_list, i, cursor, status, handled, upstream,
                   query>>

\* Lines 206-211: another spelling is cached for the key.
TopicUpdate ==
    /\ pc = "resolve"
    /\ ~CoercionFails(x)
    /\ Lower(x.topic) \in DOMAIN _topic_name_map
    /\ _topic_name_map[Lower(x.topic)] # x.topic
    /\ topic' = UpdateTopic(topic, x.topic, TopicId(x.topic))
    /\ _topic_name_map' = Put(_topic_name_map, Lower(x.topic), x.topic)
    /\ executed' = Log("UPDATE topic")
    /\ pc' = "data"
    /\ UNCHANGED <<meta, tables, _topic_id_map, _topic_meta, _connection,
                   to_publish_list, i, cursor, status, handled, upstream,
                   query>>

\* Lines 196-211 when the cached name is the published name: no statement.
TopicKnown ==
    /\ pc = "resolve"
    /\ ~CoercionFails(x)
    /\ Lower(x.topic) \in DOMAIN _topic_name_map
    /\ _topic_name_map[Lower(x.topic)] = x.topic
    /\ pc' = "data"
    /\ UNCHANGED <<storage, caches, _connection, to_publish_list, i, cursor,
                   status, handled, executed, upstream, query>>

\* Line 213: insert_data into the table named by source.
DataInsert ==
    /\ pc = "data"
    /\ Source(x) \in SchemaTables
    /\ tables' = InsertData(tables, Source(x), TopicId(x.topic), x.timestamp,
                            Value(x))
    /\ executed' = Log("INSERT data")
    /\ pc' = "meta"
    /\ UNCHANGED <<topic, meta, caches, _connection, to_publish_list, i,
                   cursor, status, handled, upstream, query>>

\* Line 213 when no table has the name: the statement is rejected with
\* ProgrammingError, which no except clause of the call catches.
DataUnknownTable ==
    /\ pc = "data"
    /\ Source(x) \notin SchemaTables
    /\ executed' = Log("INSERT data")
    /\ status' = "ProgrammingError"
    /\ pc' = "finally"
    /\ UNCHANGED <<storage, caches, _connection, to_publish_list, i, cursor,
                   handled, upstream, query>>

\* Lines 215-225: the metadata test, and the write it guards.
MetaUpsert ==
    /\ pc = "meta"
    /\ IF MetaChanged(_topic_meta, TopicId(x.topic), x.meta)
         THEN /\ meta' = InsertMeta(meta, TopicId(x.topic), Dumps(x.meta))
              /\ _topic_meta' = Put(_topic_meta, TopicId(x.topic), x.meta)
              /\ executed' = Log("INSERT meta")
         ELSE UNCHANGED <<meta, _topic_meta, executed>>
    /\ NextPoint
    /\ UNCHANGED <<topic, tables, _topic_id_map, _topic_name_map,
                   _connection, to_publish_list, cursor, status, handled,
                   upstream, query>>

\* The statement the call is about to execute, "" when there is none.
PendingStatement ==
    CASE pc = "resolve" /\ ~CoercionFails(x) ->
            IF Lower(x.topic) \notin DOMAIN _topic_name_map
                THEN "INSERT topic"
            ELSE IF _topic_name_map[Lower(x.topic)] # x.topic
                THEN "UPDATE topic"
            ELSE ""
      [] pc = "data" -> "INSERT data"
      [] pc = "meta" ->
            IF MetaChanged(_topic_meta, TopicId(x.topic), x.meta)
                THEN "INSERT meta"
            ELSE ""
      [] OTHER -> ""

\* Variant: the exception is caught around the statement and the call goes
\* on to report.
ConnectionLost_ThenReport ==
    /\ PendingStatement # ""
    /\ executed' = Log(PendingStatement)
    /\ status' = "ConnectionError"
    /\ _connection' = "None"
    /\ lost_after' = IF pc = "meta" THEN i ELSE i - 1
    /\ pc' = "ack"
    /\ UNCHANGED <<storage, caches, to_publish_list, i, cursor, handled,
                   retry_of, query>>

\* Variant: the exception is caught inside the loop, and the loop goes on
\* with the next point.
ConnectionLost_Continue ==
    /\ PendingStatement # ""
    /\ executed' = Log(PendingStatement)
    /\ status' = "ConnectionError"
    /\ _connection' = "None"
    /\ lost_after' = IF pc = "meta" THEN i ELSE i - 1
    /\ NextPoint
    /\ UNCHANGED <<storage, caches, to_publish_list, cursor, handled,
                   retry_of, query>>

\* Variant: the caches are assigned before the statement is executed.
ConnectionLost_CacheFirst ==
    /\ PendingStatement # ""
    /\ executed' = Log(PendingStatement)
    /\ status' = "ConnectionError"
    /\ _connection' = "None"
    /\ lost_after' = IF pc = "meta" THEN i ELSE i - 1
    /\ pc' = "finally"
    /\ _topic_name_map' = IF pc = "resolve"
                              THEN Put(_topic_name_map, Lower(x.topic), x.topic)
                          ELSE _topic_name_map
    /\ _topic_meta' = IF pc = "meta"
                          THEN Put(_topic_meta, TopicId(x.topic), x.meta)
                      ELSE _topic_meta
    /\ UNCHANGED <<storage, _topic_id_map, to_publish_list, i, cursor,
                   handled, retry_of, query>>

\* Lines 228-230: a statement raises ConnectionError; the handler drops the
\* connection.
ConnectionLost ==
    /\ PendingStatement # ""
    /\ executed' = Log(PendingStatement)
    /\ status' = "ConnectionError"
    /\ _connection' = "None"
    /\ lost_after' = IF pc = "meta" THEN i ELSE i - 1
    /\ pc' = "finally"
    /\ UNCHANGED <<storage, caches, to_publish_list, i, cursor, handled,
                   retry_of, query>>

\* Variant: the report is made in the try block and once more after it.
ReportAllHandled_Twice ==
    /\ pc = "ack"
    /\ handled' = handled + 1
    /\ pc' = IF handled = 0 THEN "ack" ELSE "finally"
    /\ UNCHANGED <<storage, caches, _connection, to_publish_list, i, cursor,
                   status, executed, upstream, query>>

\* Line 227: the loop has ended.
ReportAllHandled ==
    /\ pc = "ack"
    /\ handled' = handled + 1
    /\ pc' = "finally"
    /\ UNCHANGED <<storage, caches, _connection, to_publish_list, i, cursor,
                   status, executed, upstream, query>>

\* Lines 231-234, and the call returns (or the exception leaves it).
Finally ==
    /\ pc = "finally"
    /\ cursor' = "closed"
    /\ to_publish_list' = <<>>
    /\ i' = 0
    /\ status' = "ok"
    /\ handled' = 0
    /\ executed' = <<>>
    /\ lost_after' = -1
    /\ retry_of' = -1
    /\ pc' = "idle"
    /\ UNCHANGED <<storage, caches, _connection, query>>

\* The call that lost the connection returns without having reported the
\* batch, and the upstream delivers the same batch again: lines 231-234 of
\* the first call and lines 167-170 of the second.
Redeliver ==
    /\ pc = "finally"
    /\ status = "ConnectionError"
    /\ _connection' = "conn"
    /\ cursor' = "open"
    /\ i' = 1
    /\ status' = "ok"
    /\ handled' = 0
    /\ executed' = <<>>
    /\ retry_of' = lost_after
    /\ lost_after' = -1
    /\ pc' = "resolve"
    /\ UNCHANGED <<storage, caches, to_publish_list, query>>

\* ------------------------------------------------------ query_historian
\* Line 398: topic.split('/')[0]
TableName(q) == q.topic[1]

\* Lines 405-406: the name that is looked up in _topic_id_map.
QueryName(q) ==
    IF TableName(q) \in {"analysis", "device"} THEN Tail(q.topic)
    ELSE q.topic

\* Lines 401-410: the two early returns.
InvalidTopic(q) ==
    \/ TableName(q) \notin {"analysis", "device", "record", "datalogger"}
    \/ QueryName(q) \notin DOMAIN _topic_id_map

\* Line 437: utils.get_aware_utc_now(), the clock at the time of a query.
\* Every point of Points was recorded before it.
GetAwareUtcNow == 3

\* Lines 449-451: with both bounds given, values.append is called with two
\* arguments, which raises TypeError.
AppendRaises(q) == q.start # None /\ q.end # None

\* Line 443: args = dict(..., limit=20, ...)
DefaultLimit == 20

\* Lines 443 and 458-462: the text after ORDER BY is " <limit> <offset>",
\* where limit is the bare number 20 unless count > 0 and offset is
\* " SKIP n" when skip > 0.  Only " LIMIT n" with no offset is SQL.
CountGiven(q) == q.count # None /\ q.count.int > 0
StatementRejected(q) == ~CountGiven(q) \/ q.skip > 0

\* Lines 446-447: the WHERE clause of the statement that is executed names
\* the topic id only.
Matching(q) ==
    { r \in tables : /\ r.table = TableName(q)
                     /\ r.topic_id = _topic_id_map[QueryName(q)] }

RECURSIVE Ordered(_, _)
\* ORDER BY ts ASC (asc) or DESC.
Ordered(rows, asc) ==
    IF rows = {} THEN <<>>
    ELSE LET first == CHOOSE r \in rows : \A o \in rows :
                        IF asc THEN r.ts.iso <= o.ts.iso
                        ELSE r.ts.iso >= o.ts.iso
         IN  <<first>> \o Ordered(rows \ {first}, asc)

\* LIMIT n
Limit(rows, n) == SubSeq(rows, 1, IF n < Len(rows) THEN n ELSE Len(rows))

\* Lines 474-477: every row fetched, as (ts, result).
Fetched(q) ==
    LET rows == Limit(Ordered(Matching(q), q.order = "FIRST_TO_LAST"),
                      q.count.int)
    IN  [k \in DOMAIN rows |-> <<rows[k].ts, rows[k].result>>]

\* Variant: the connection's cursor is obtained at the top of the call,
\* before the topic is looked at.
Respond_CursorFirst(q, lost) ==
    IF InvalidTopic(q)
        THEN [kind |-> "return", values |-> <<>>, metadata |-> EmptyDict,
              cursor |-> "open"]
    ELSE IF AppendRaises(q)
        THEN [kind |-> "TypeError", cursor |-> "open"]
    ELSE IF lost
        THEN [kind |-> "ConnectionError", cursor |-> "open"]
    ELSE IF StatementRejected(q)
        THEN [kind |-> "ProgrammingError", cursor |-> "open"]
    ELSE [kind |-> "return", values |-> Fetched(q), metadata |-> EmptyDict,
          cursor |-> "open"]

\* What the call gives its caller: the dict of a return statement, or the
\* exception that leaves the call.  lost: cursor.execute raises
\* ConnectionError.
Respond(q, lost) ==
    IF InvalidTopic(q)
        THEN [kind |-> "return", values |-> <<>>, metadata |-> EmptyDict,
              cursor |-> "None"]
    ELSE IF AppendRaises(q)
        THEN [kind |-> "TypeError", cursor |-> "None"]
    ELSE IF lost
        THEN [kind |-> "ConnectionError", cursor |-> "open"]
    ELSE IF StatementRejected(q)
        THEN [kind |-> "ProgrammingError", cursor |-> "open"]
    ELSE [kind |-> "return", values |-> Fetched(q), metadata |-> EmptyDict,
          cursor |-> "open"]

\* Variant: a name that is not registered is registered by the query.
Query_Registers(q, lost) ==
    /\ pc = "idle"
    /\ lost => ~InvalidTopic(q) /\ ~AppendRaises(q)
    /\ request' = q
    /\ response' = Respond(q, lost)
    /\ _connection' = IF InvalidTopic(q) \/ AppendRaises(q) THEN _connection
                      ELSE "conn"
    /\ _topic_id_map' = IF QueryName(q) \in DOMAIN _topic_id_map
                            THEN _topic_id_map
                        ELSE Put(_topic_id_map, QueryName(q),
                                 TopicId(QueryName(q)))
    /\ pc' = "responded"
    /\ UNCHANGED <<storage, _topic_name_map, _topic_meta, call, upstream>>

\* Lines 384-479.  get_connection is reached only past line 451.
Query(q, lost) ==
    /\ pc = "idle"
    /\ lost => ~InvalidTopic(q) /\ ~AppendRaises(q)
    /\ request' = q
    /\ response' = Respond(q, lost)
    /\ _connection' = IF InvalidTopic(q) \/ AppendRaises(q) THEN _connection
                      ELSE "conn"
    /\ pc' = "responded"
    /\ UNCHANGED <<storage, caches, call, upstream>>

\* The caller has the response.
QueryReturn ==
    /\ pc = "responded"
    /\ request' = NoRequest
    /\ response' = NoResponse
    /\ pc' = "idle"
    /\ UNCHANGED <<storage, caches, _connection, call, upstream>>

\* ------------------------------------------------------ historian_setup
\* Variant: the map is keyed by the name as stored, without lower().
LoadedIds_ByName == [k \in {r.name : r \in topic} |->
                        (CHOOSE r \in topic : r.name = k).id]

\* _load_topic_map: one entry per row of topic, keyed by lower(name).
LoadedIds == [k \in {Lower(r.name) : r \in topic} |->
                (CHOOSE r \in topic : Lower(r.name) = k).id]
LoadedNames == [k \in {Lower(r.name) : r \in topic} |->
                (CHOOSE r \in topic : Lower(r.name) = k).name]

\* _load_meta_map: one entry per row of meta.
LoadedMeta == [t \in {r.topic_id : r \in meta} |->
                Loads((CHOOSE r \in meta : r.topic_id = t).meta_data)]

\* The rows of meta whose blob is JSON.
Readable == { r \in meta : ~LoadsFails(r.meta_data) }

\* _load_meta_map up to a row at which jsonapi.loads raises: the rows that
\* were fetched before it are in the cache.
PartlyLoadedMeta(rows) ==
    [t \in {r.topic_id : r \in rows} |->
        Loads((CHOOSE r \in rows : r.topic_id = t).meta_data)]

\* Lines 695-703.  _load_meta_map has no handler around jsonapi.loads, so
\* the ValueError of a blob that is not JSON leaves historian_setup.
HistorianSetup ==
    /\ pc = "new"
    /\ _connection' = "conn"
    /\ _topic_id_map' = LoadedIds
    /\ _topic_name_map' = LoadedNames
    /\ IF Readable = meta
         THEN /\ _topic_meta' = LoadedMeta
              /\ pc' = "idle"
         ELSE /\ \E rows \in SUBSET Readable :
                    _topic_meta' = PartlyLoadedMeta(rows)
              /\ pc' = "failed"
    /\ UNCHANGED <<storage, call, upstream, query>>

\* A text that is not JSON.
NotJson == [text |-> "{"]

\* A blob of the meta table is damaged in storage, by another writer or by
\* the medium, while no agent process runs.
CorruptMeta ==
    /\ pc = "new"
    /\ \E r \in Readable :
          meta' = (meta \ {r}) \cup {[r EXCEPT !.meta_data = NotJson]}
    /\ UNCHANGED <<topic, tables, caches, _connection, pc, call, upstream,
                   query>>

\* The agent process ends and a new one is constructed (__init__).
Restart ==
    /\ pc \in {"idle", "failed"}
    /\ _topic_id_map' = EmptyDict
    /\ _topic_name_map' = EmptyDict
    /\ _topic_meta' = EmptyDict
    /\ _connection' = "None"
    /\ cursor' = "None"
    /\ pc' = "new"
    /\ UNCHANGED <<storage, to_publish_list, i, status, handled, executed,
                   upstream, query>>

Next ==
    \/ \E b \in Batches : PublishStart(b)
    \/ CoercionError
    \/ TopicInsert
    \/ TopicUpdate
    \/ TopicKnown
    \/ DataInsert
    \/ DataUnknownTable
    \/ MetaUpsert
    \/ ConnectionLost
    \/ ReportAllHandled
    \/ Finally
    \/ \E q \in Requests, lost \in BOOLEAN : Query(q, lost)
    \/ QueryReturn
    \/ HistorianSetup
    \/ Restart

Spec == Init /\ [][Next]_vars

\* The publish calls of Spec, with the upstream named: the call that
\* follows a call that lost the connection may be the redelivery of its
\* batch.
NextRedelivery ==
    \/ \E b \in Batches : PublishStart(b)
    \/ CoercionError
    \/ TopicInsert
    \/ TopicUpdate
    \/ TopicKnown
    \/ DataInsert
    \/ DataUnknownTable
    \/ MetaUpsert
    \/ ConnectionLost
    \/ ReportAllHandled
    \/ Finally
    \/ Redeliver
    \/ HistorianSetup
    \/ Restart

SpecRedelivery == Init /\ [][NextRedelivery]_vars

\* The behaviours in which storage stays reachable and every point of every
\* batch can be stored: no statement raises, so every publish call goes
\* through and reports.
StorablePoint(p) == ~CoercionFails(p) /\ Source(p) \in SchemaTables
StorableBatches ==
    { b \in Batches : \A k \in DOMAIN b : StorablePoint(b[k]) }

NextReliable ==
    \/ \E b \in StorableBatches : PublishStart(b)
    \/ TopicInsert
    \/ TopicUpdate
    \/ TopicKnown
    \/ DataInsert
    \/ MetaUpsert
    \/ ReportAllHandled
    \/ Finally
    \/ \E q \in Requests : Query(q, FALSE)
    \/ QueryReturn
    \/ HistorianSetup
    \/ Restart

SpecReliable == Init /\ [][NextReliable]_vars

\* Another agent on the same Crate cluster announces a topic: the statement
\* of lines 198-202, executed between two calls of this agent.
OtherAgentAnnounces(name) ==
    /\ pc = "idle"
    /\ topic' = InsertTopic(topic, TopicId(name), name)
    /\ topic' # topic
    /\ UNCHANGED <<meta, tables, caches, _connection, pc, call, upstream,
                   query>>

\* The behaviours of SpecReliable with a second writer of the topic table.
NextShared ==
    \/ NextReliable
    \/ \E p \in Points : OtherAgentAnnounces(p.topic)

SpecShared == Init /\ [][NextShared]_vars

\* The behaviours of SpecReliable in which a stored metadata blob may be
\* damaged between two runs of the agent.
NextCorrupt ==
    \/ NextReliable
    \/ CorruptMeta

SpecCorrupt == Init /\ [][NextCorrupt]_vars

\* ------------------------------------------------------------ properties
\* The data row that holds the point p: the row of p's category table with
\* p's topic id and timestamp.
RowsOf(p) ==
    { r \in tables : /\ r.table = Source(p)
                     /\ r.topic_id = TopicId(p.topic)
                     /\ r.ts = FormatTimestamp(p.timestamp) }

\* The points of the batch of the call in progress.
BatchPoints == { to_publish_list[k] : k \in DOMAIN to_publish_list }

\* C1: publish_to_historian reports a batch as handled only if every point
\* of the batch has a data row in storage, and a call in which a statement
\* raised ConnectionError reports nothing.
C1_AckOnlyWhenAllStored ==
    /\ handled > 0 => \A p \in BatchPoints : RowsOf(p) # {}
    /\ status = "ConnectionError" => handled = 0

\* A batch of two points with different keys has been reported.
C1_Witness ==
    /\ handled = 1
    /\ Len(to_publish_list) = 2
    /\ RowsOf(to_publish_list[1]) # RowsOf(to_publish_list[2])

\* C2: a call that went through all points of its batch without an exception
\* has reported exactly once when it ends, the report comes after the data
\* statement of every point, the last one included, with nothing left to
\* execute, and no call reports twice.
C2_ExactlyOneAck ==
    /\ handled \in {0, 1}
    /\ (pc = "finally" /\ status = "ok") => handled = 1
    /\ handled = 1 =>
          /\ status = "ok"
          /\ pc = "finally"
          /\ i = Len(to_publish_list) + 1
          /\ \A k \in DOMAIN to_publish_list : \E j \in DOMAIN executed :
                executed[j] = [point |-> k, stmt |-> "INSERT data"]

\* A call on two points is about to end after its report.
C2_Witness ==
    /\ pc = "finally"
    /\ status = "ok"
    /\ handled = 1
    /\ Len(to_publish_list) = 2

\* No two rows of a category table have the same (topic_id, ts).
UniqueDataKeys ==
    \A r1, r2 \in tables :
        (r1.table = r2.table /\ r1.topic_id = r2.topic_id /\ r1.ts = r2.ts)
            => r1 = r2

\* The data statement of a point whose key is stored returns and leaves the
\* rows as they are.
DuplicateIsNoOp ==
    (pc = "data" /\ RowsOf(x) # {} /\ status' # "ConnectionError")
        => /\ tables' = tables
           /\ status' = "ok"
           /\ pc' = "meta"

\* C3: a category table never holds two rows with one (topic_id, ts), and
\* publishing a point whose (category, topic_id, ts) is stored adds no row,
\* leaves the stored value (also when the published value is another one)
\* and raises nothing.
C3_IdempotentUpsert == []UniqueDataKeys /\ [][DuplicateIsNoOp]_vars

\* The data statement of a point has returned, and the row stored under the
\* point's key holds another value than the point's.
C3_Witness ==
    /\ pc = "meta"
    /\ \E r \in RowsOf(x) : r.result # Value(x)

\* The topic rows of the topics of the batch.
TopicRowsOfBatch ==
    { r \in topic : \E p \in BatchPoints : r.id = TopicId(p.topic) }

\* C4: a call that lost the connection after k < N points of its batch were
\* stored has reported nothing; when the same batch is delivered again and
\* the call goes through, storage holds one data row per distinct point key
\* of the batch (N rows, not N + k), one topic row per distinct topic of the
\* batch, and the call has reported once.
C4_IdempotentRecovery ==
    /\ status = "ConnectionError" => handled = 0
    /\ (/\ retry_of >= 0
        /\ retry_of < Len(to_publish_list)
        /\ pc = "finally"
        /\ status = "ok")
          => /\ handled = 1
             /\ Cardinality(UNION { RowsOf(p) : p \in BatchPoints })
                  = Cardinality({ <<Source(p), TopicId(p.topic), p.timestamp>>
                                    : p \in BatchPoints })
             /\ Cardinality(TopicRowsOfBatch)
                  = Cardinality({ TopicId(p.topic) : p \in BatchPoints })

\* The redelivery of a batch of two points with different keys, of which
\* one was stored when the connection was lost, has gone through.
C4_Witness ==
    /\ retry_of = 1
    /\ Len(to_publish_list) = 2
    /\ RowsOf(to_publish_list[1]) # RowsOf(to_publish_list[2])
    /\ pc = "finally"
    /\ status = "ok"
    /\ handled = 1

\* The metadata cached for the topic of the point equals the point's.
MetaCachedEqual ==
    /\ TopicId(x.topic) \in DOMAIN _topic_meta
    /\ _topic_meta[TopicId(x.topic)] = x.meta

\* C5: for a point whose metadata equals the metadata cached for its topic
\* id, publish passes no statement on the meta table to execute; for a point
\* whose metadata differs from the cached one, or with nothing cached, it
\* passes exactly one.
C5_MetaWrittenOnlyOnChange ==
    [][pc = "meta" =>
         IF MetaCachedEqual THEN executed' = executed
         ELSE executed' = Log("INSERT meta")]_vars

\* C6: between calls, after publish calls that all went through, the meta
\* row of every topic id holds the metadata cached for it in _topic_meta,
\* which is the metadata published last for it.
C6_MetaStoreMatchesCache ==
    pc = "idle" =>
        \A t \in DOMAIN _topic_meta :
            \E r \in meta : r.topic_id = t /\ Loads(r.meta_data) = _topic_meta[t]

\* The row r lies in the time range of the query q.
InRange(r, q) ==
    /\ q.start = None \/ ParseTimestamp(q.start) <= ParseTimestamp(r.ts)
    /\ q.end = None \/ ParseTimestamp(r.ts) <= ParseTimestamp(q.end)

\* The rows published for the name that follows the category of q, in the
\* time range of q.
PublishedInRange(q) ==
    { r \in tables : /\ r.table = TableName(q)
                     /\ r.topic_id = TopicId(Tail(q.topic))
                     /\ InRange(r, q) }

\* The earliest of a non-empty set of rows, as the pair a query returns.
Earliest(rows) ==
    LET r == CHOOSE r \in rows : \A o \in rows :
                ParseTimestamp(r.ts) <= ParseTimestamp(o.ts)
    IN  <<r.ts, r.result>>

\* C7: a query for "device/" + n, n a name as published, with a start, order
\* FIRST_TO_LAST and count 1 returns the first point published for n in the
\* time range, whether the topic was loaded at startup or first seen since.
C7_IngestedPointQueryable ==
    (/\ pc = "responded"
     /\ TableName(request) = "device"
     /\ \E r \in topic : r.name = Tail(request.topic)
     /\ request.start # None
     /\ request.order = "FIRST_TO_LAST"
     /\ request.count = IntOf(1)
     /\ request.skip = 0
     /\ PublishedInRange(request) # {})
        => /\ response.kind = "return"
           /\ response.values = << Earliest(PublishedInRange(request)) >>

\* The names points are published under.
Names == { p.topic : p \in Points }

\* Two names differ by letter case only.
SameLetter(s, t) == s = t \/ {s, t} \in { {"a", "A"}, {"b", "B"} }
EqualIgnoringCase(n1, n2) ==
    /\ Len(n1) = Len(n2)
    /\ \A k \in DOMAIN n1 : SameLetter(n1[k], n2[k])

\* C8: names that differ by letter case only have one topic id, the id is
\* the hash of the case-folded name whatever the state, and the data row of
\* a point is found under the id of every spelling of its topic.
C8_CaseInsensitiveIdentity ==
    /\ \A n1, n2 \in Names :
          EqualIgnoringCase(n1, n2) => TopicId(n1) = TopicId(n2)
    /\ pc = "meta" =>
          \A n \in Names : EqualIgnoringCase(n, x.topic) =>
              \E r \in tables : /\ r.table = Source(x)
                               /\ r.topic_id = TopicId(n)
                               /\ r.topic_id = Md5(Join(Lower(x.topic)))
                               /\ r.ts = FormatTimestamp(x.timestamp)

\* The data row of a point published as "A" has been written, and a row
\* published as "a" is stored under the same id.
C8_Witness ==
    /\ pc = "meta"
    /\ x.topic = <<"A">>
    /\ \E r \in tables : /\ r.topic_id = TopicId(<<"a">>)
                         /\ r.ts = FormatTimestamp(2)

\* No two topic rows have one case-folded name.
UniqueTopicKeys ==
    \A r1, r2 \in topic : Lower(r1.name) = Lower(r2.name) => r1 = r2

\* Once the topic of a point is resolved, the topic row and _topic_name_map
\* hold the spelling of the point.
LatestSpelling ==
    pc = "data" =>
        /\ \E r \in topic : r.id = TopicId(x.topic) /\ r.name = x.topic
        /\ Lower(x.topic) \in DOMAIN _topic_name_map
        /\ _topic_name_map[Lower(x.topic)] = x.topic

\* Resolving a name whose key is cached with another spelling leaves the
\* number of topic rows.
RenameInPlace ==
    (/\ pc = "resolve"
     /\ pc' = "data"
     /\ Lower(x.topic) \in DOMAIN _topic_name_map
     /\ _topic_name_map[Lower(x.topic)] # x.topic)
        => Cardinality(topic') = Cardinality(topic)

\* C9: after historian_setup the topic table has at most one row per
\* case-folded name; publishing another spelling of a stored name rewrites
\* the name in its row without adding a row, and then the row and
\* _topic_name_map hold the spelling published last.
C9_OneRowPerNormalizedKey ==
    [](UniqueTopicKeys /\ LatestSpelling) /\ [][RenameInPlace]_vars

\* A name has just been rewritten.
C9_Witness ==
    /\ pc = "data"
    /\ executed # <<>>
    /\ executed[Len(executed)] = [point |-> i, stmt |-> "UPDATE topic"]

\* C10: a query with both start and end on a topic of _topic_id_map returns,
\* and what it returns are rows of that topic in the time range; when no
\* row is in the range it returns no values.
C10_BoundedQueryCompletes ==
    (/\ pc = "responded"
     /\ ~InvalidTopic(request)
     /\ request.start # None
     /\ request.end # None)
        => /\ response.kind = "return"
           /\ \A k \in DOMAIN response.values :
                \E r \in Matching(request) :
                    /\ InRange(r, request)
                    /\ response.values[k] = <<r.ts, r.result>>

\* C11: a query given neither start nor end returns only pairs whose
\* timestamp is at or after the time of the call.
C11_UnboundedQueryFromNow ==
    (/\ pc = "responded"
     /\ request.start = None
     /\ request.end = None
     /\ response.kind = "return")
        => \A k \in DOMAIN response.values :
              GetAwareUtcNow <= ParseTimestamp(response.values[k][1])

\* The query q names no category table, or a name that is not registered.
Unresolvable(q) ==
    \/ q.topic[1] \notin Categories
    \/ (IF q.topic[1] \in {"analysis", "device"} THEN Tail(q.topic)
        ELSE q.topic) \notin DOMAIN _topic_id_map

\* C12: a query whose first path segment is not a category, or whose name
\* (without the prefix) is not in _topic_id_map, returns
\* {values: [], metadata: {}}: it raises nothing, obtains no connection and
\* no cursor, and leaves every stored row.
C12_InvalidTopicEmptyResult ==
    [][(pc = "idle" /\ pc' = "responded" /\ Unresolvable(request'))
         => /\ response' = [kind |-> "return", values |-> <<>>,
                            metadata |-> EmptyDict, cursor |-> "None"]
            /\ _connection' = _connection
            /\ UNCHANGED storage]_vars

\* With no connection held and rows stored in the device table, a query on
\* a device topic that is not registered has returned.
C12_Witness ==
    /\ pc = "responded"
    /\ request.topic[1] = "device"
    /\ Tail(request.topic) \notin DOMAIN _topic_id_map
    /\ \E r \in tables : r.table = "device"
    /\ _connection = "None"
    /\ response.kind = "return"

\* The metadata cached for the topic id the query q resolves to, the empty
\* mapping when there is none.
CachedMetadata(q) ==
    LET topic_id == _topic_id_map[QueryName(q)]
    IN  IF topic_id \in DOMAIN _topic_meta THEN _topic_meta[topic_id]
        ELSE EmptyDict

\* C13: the metadata of the response to a query on a registered topic is
\* the metadata cached in _topic_meta for the topic's id, and the empty
\* mapping exactly when nothing is cached for it.
C13_ResponseMetadataFromCache ==
    (/\ pc = "responded"
     /\ ~Unresolvable(request)
     /\ response.kind = "return")
        => response.metadata = CachedMetadata(request)

\* C14: no connection is held before the first use; a publish call in which
\* a statement raised ConnectionError has set _connection to None, and so
\* has a query call whose statement raised ConnectionError, so that the
\* next call connects anew.
C14_ConnectionDiscardedOnLoss ==
    /\ pc = "new" => _connection = "None"
    /\ status = "ConnectionError" => _connection = "None"
    /\ (pc = "responded" /\ response.kind = "ConnectionError")
          => _connection = "None"

\* C15: when a publish call has ended its cursor is closed, and when a
\* query call ends, by a return or by an exception, the cursor it obtained
\* is closed: no call leaves an open cursor.
C15_CursorsClosed ==
    /\ pc = "idle" => cursor # "open"
    /\ pc = "responded" => response.cursor # "open"

\* In a call that a conversion ended, nothing is reported and the points
\* before the failing one have their rows; whenever a batch is reported,
\* every point of it has a row.
SiblingsKept ==
    /\ status = "ValueError" =>
          /\ handled = 0
          /\ \A k \in 1..(i - 1) : RowsOf(to_publish_list[k]) # {}
    /\ handled > 0 => \A k \in DOMAIN to_publish_list :
                          /\ ~CoercionFails(to_publish_list[k])
                          /\ RowsOf(to_publish_list[k]) # {}

\* The conversion that fails, and the rest of the call, write nothing.
FailingPointWritesNothing ==
    ((pc = "resolve" /\ CoercionFails(x)) \/ status = "ValueError")
        => UNCHANGED storage

\* C16: when the value of a point cannot be converted to its declared type,
\* no row is written for the point, the rows of the points before it stay
\* as they are, and the batch is not reported, so no point of it counts as
\* handled without having been stored.
C16_CoercionFailureKeepsSiblings ==
    []SiblingsKept /\ [][FailingPointWritesNothing]_vars

\* The second point of a batch failed its conversion after the first was
\* stored.
C16_Witness ==
    /\ status = "ValueError"
    /\ pc = "finally"
    /\ i = 2
    /\ RowsOf(to_publish_list[1]) # {}
    /\ handled = 0

\* The category the claim gives a point: scrape is device, log is
\* datalogger, any other source is itself.
Category(p) ==
    CASE p.source = "scrape" -> "device"
      [] p.source = "log" -> "datalogger"
      [] OTHER -> p.source

\* A data row is in the table of a category.
OnlyCategoryTables == \A r \in tables : r.table \in Categories

\* The data statement of a point of a category stores the point in the
\* table of that category; the data statement of a point of no category
\* fails, and neither it nor the rest of the call changes a data row or a
\* meta row.
CategoryDecidesWrite ==
    /\ (pc = "data" /\ Category(x) \in Categories
            /\ status' # "ConnectionError")
          => /\ pc' = "meta"
             /\ \E r \in tables' : /\ r.table = Category(x)
                                    /\ r.topic_id = TopicId(x.topic)
                                    /\ r.ts = FormatTimestamp(x.timestamp)
    /\ (pc = "data" /\ Category(x) \notin Categories)
          => /\ status' \in {"ProgrammingError", "ConnectionError"}
             /\ handled' = 0
             /\ UNCHANGED <<tables, meta>>
    /\ status = "ProgrammingError" => UNCHANGED <<tables, meta, handled>>

C18_QueryChangesNothing ==
    [][((pc = "idle" /\ pc' = "responded") \/ pc = "responded")
         => UNCHANGED <<caches, storage>>]_vars

\* A query has returned rows while the three caches held entries.
C18_Witness ==
    /\ pc = "responded"
    /\ response.kind = "return"
    /\ response.values # <<>>
    /\ DOMAIN _topic_id_map # {}
    /\ DOMAIN _topic_name_map # {}
    /\ DOMAIN _topic_meta # {}

\* C19: when a blob of the meta table is not JSON, historian_setup still
\* completes, and _topic_meta holds the metadata of every row whose blob is
\* JSON.
C19_SetupSkipsCorruptMeta ==
    [][pc = "new" /\ pc' # "new"
         => /\ pc' = "idle"
            /\ _topic_meta' = PartlyLoadedMeta(Readable)]_vars

\* The rows s+1 .. s+n of a sequence, as far as it has them.
Window(rows, s, n) ==
    SubSeq(rows, s + 1, IF s + n < Len(rows) THEN s + n ELSE Len(rows))

\* C20: a query with a count returns the rows its statement matches in
\* ascending order of timestamp when order is FIRST_TO_LAST and in
\* descending order otherwise, without the first skip rows of that order
\* and cut to count rows: the window [skip, skip + count) of the ordered
\* rows.
C20_OrderedWindow ==
    (/\ pc = "responded"
     /\ ~InvalidTopic(request)
     /\ ~AppendRaises(request)
     /\ CountGiven(request))
        => /\ response.kind = "return"
           /\ LET rows == Window(Ordered(Matching(request),
                                         request.order = "FIRST_TO_LAST"),
                                 request.skip, request.count.int)
              IN  response.values =
                    [k \in DOMAIN rows |-> <<rows[k].ts, rows[k].result>>]

\* The most rows the query q may return: its count when that is positive,
\* the default otherwise.
Cap(q) == IF CountGiven(q) THEN q.count.int ELSE DefaultLimit

\* C21: a query returns, with at most count rows when count > 0 is given
\* and at most 20 rows when count is None or not positive; with no count it
\* returns the matching rows up to the 20th.
C21_BoundedResult ==
    (/\ pc = "responded"
     /\ ~InvalidTopic(request)
     /\ ~AppendRaises(request)
     /\ request.skip = 0)
        => /\ response.kind = "return"
           /\ Len(response.values) <= Cap(request)
           /\ ~CountGiven(request) =>
                 Len(response.values) =
                    IF Cardinality(Matching(request)) < DefaultLimit
                        THEN Cardinality(Matching(request))
                    ELSE DefaultLimit

\* The resolution of the topic of a point that returns executes the one
\* statement its case calls for.
OnePathPerPoint ==
    (pc = "resolve" /\ pc' = "data") =>
        LET key == Lower(x.topic)
            id == TopicId(x.topic)
        IN  IF key \notin DOMAIN _topic_name_map
                THEN /\ executed' = Log("INSERT topic")
                     /\ topic' = IF \E r \in topic : r.id = id THEN topic
                                 ELSE topic \cup {[id |-> id, name |-> x.topic]}
            ELSE IF _topic_name_map[key] # x.topic
                THEN /\ executed' = Log("UPDATE topic")
                     /\ \A r \in topic' : r.id = id => r.name = x.topic
                     /\ {r.id : r \in topic'} = {r.id : r \in topic}
            ELSE /\ executed' = executed
                 /\ topic' = topic

\* C22: for a point, publish takes one of three paths: with no name cached
\* for the case-folded key, one INSERT into topic, which leaves the table
\* as it is when the id has a row; with another spelling cached, one UPDATE
\* of the name; with the published spelling cached, no statement on topic.
C22_ThreeResolutionPaths == [][OnePathPerPoint]_vars

\* The INSERT of a point's topic has returned, and the row of the id holds
\* the spelling another agent had announced.
C22_Witness ==
    /\ pc = "data"
    /\ executed # <<>>
    /\ executed[Len(executed)] = [point |-> i, stmt |-> "INSERT topic"]
    /\ \E r \in topic : r.id = TopicId(x.topic) /\ r.name # x.topic
    /\ \A r1, r2 \in topic : r1.id = r2.id => r1 = r2

\* When historian_setup has completed, the three caches hold what storage
\* holds.
LoadedFromStorage ==
    (pc = "new" /\ pc' = "idle") =>
        /\ \A r \in topic' :
              /\ Lower(r.name) \in DOMAIN _topic_id_map'
              /\ _topic_id_map'[Lower(r.name)] = r.id
              /\ r.id = TopicId(r.name)
              /\ Lower(r.name) \in DOMAIN _topic_name_map'
              /\ _topic_name_map'[Lower(r.name)] = r.name
        /\ \A r \in meta' :
              /\ r.topic_id \in DOMAIN _topic_meta'
              /\ _topic_meta'[r.topic_id] = Loads(r.meta_data)
        /\ \A d \in tables' : \E r \in topic' :
              /\ Lower(r.name) \in DOMAIN _topic_id_map'
              /\ _topic_id_map'[Lower(r.name)] = d.topic_id

\* The id a query resolves a name to is the id publish computes for it.
ResolvesToPublishedId ==
    (pc = "responded" /\ ~InvalidTopic(request)) =>
        _topic_id_map[QueryName(request)] = TopicId(QueryName(request))

\* C23: when historian_setup has completed, for every topic row (id, name)
\* _topic_id_map maps the case-folded name to id, which is the id publish
\* computes for the name, and _topic_name_map maps it to name; for every
\* meta row _topic_meta holds the deserialized blob under its topic_id; and
\* the id a query resolves a stored topic to is the id of its data rows.
C23_StartupLoad == []ResolvesToPublishedId /\ [][LoadedFromStorage]_vars

\* A new process has loaded a topic stored as "A", with its metadata and a
\* data row, under the key "a".
C23_Witness ==
    /\ pc = "idle"
    /\ \E r \in topic : r.name = <<"A">>
    /\ <<"a">> \in DOMAIN _topic_id_map
    /\ _topic_id_map[<<"a">>] = TopicId(<<"A">>)
    /\ TopicId(<<"A">>) \in DOMAIN _topic_meta
    /\ \E d \in tables : d.topic_id = TopicId(<<"A">>)
    /\ cursor = "None"

\* In a call that lost the connection at point i: the call is at its end
\* and has reported nothing, the statement that raised is the last one
\* passed to execute and was passed once, no statement was passed for a
\* later point, and the points before i have their rows.
StoppedAtLoss ==
    status = "ConnectionError" =>
        /\ pc = "finally"
        /\ handled = 0
        /\ executed # <<>>
        /\ executed[Len(executed)].point = i
        /\ \A j, k \in DOMAIN executed :
              executed[j] = executed[k] => j = k
        /\ \A j \in DOMAIN executed : executed[j].point <= i
        /\ \A k \in 1..(i - 1) : RowsOf(to_publish_list[k]) # {}

\* What is left of the call passes no statement to execute and leaves
\* every row.
NothingAfterLoss ==
    status = "ConnectionError" =>
        /\ UNCHANGED <<storage, caches>>
        /\ pc' = "idle"
        /\ handled' = 0

\* C24: when a statement of point k raises ConnectionError, publish passes
\* no further statement to execute, for k or for a later point, and does
\* not execute the failed statement again; the call ends without having
\* reported the batch, and the rows of the points before k stay stored.
C24_NoOperationAfterLoss == []StoppedAtLoss /\ [][NothingAfterLoss]_vars

\* The metadata statement of the first of two points raised: the data row
\* of the first point is stored and the second point has no row.
C24_Witness ==
    /\ status = "ConnectionError"
    /\ Len(to_publish_list) = 2
    /\ i = 1
    /\ executed[Len(executed)].stmt = "INSERT meta"
    /\ RowsOf(to_publish_list[1]) # {}
    /\ StorablePoint(to_publish_list[2])
    /\ RowsOf(to_publish_list[2]) = {}

\* Every key of _topic_name_map has a topic row, and every topic id of
\* _topic_meta has a meta row.
CachedIsStored ==
    /\ \A k \in DOMAIN _topic_name_map :
          \E r \in topic : Lower(r.name) = k /\ r.id = Md5(Join(k))
    /\ \A t \in DOMAIN _topic_meta : \E r \in meta : r.topic_id = t

\* A step of publish that changes a cache is the return of a statement on
\* the table behind it, and a statement that raises changes no cache.
WriteBeforeCache ==
    /\ (pc = "resolve" /\ _topic_name_map' # _topic_name_map)
          => /\ status' = "ok"
             /\ executed' # executed
             /\ \E r \in topic' : r.id = TopicId(x.topic)
    /\ (pc = "meta" /\ _topic_meta' # _topic_meta)
          => /\ status' = "ok"
             /\ executed' = Log("INSERT meta")
             /\ \E r \in meta' : r.topic_id = TopicId(x.topic)
    /\ status' = "ConnectionError" => UNCHANGED caches

\* C25: publish assigns _topic_name_map for a key, and _topic_meta for a
\* topic id, only when the statement on the table behind it has returned;
\* so after historian_setup and publish calls that lose the connection at
\* any statement, every key of _topic_name_map has a topic row and every
\* topic id of _topic_meta has a meta row.
C25_WriteBeforeCache == []CachedIsStored /\ [][WriteBeforeCache]_vars

\* The INSERT of a topic that has no row raised: the key is not cached.
C25_Witness ==
    /\ status = "ConnectionError"
    /\ executed[Len(executed)].stmt = "INSERT topic"
    /\ Lower(x.topic) \notin DOMAIN _topic_name_map
    /\ \A r \in topic : r.id # TopicId(x.topic)
    /\ DOMAIN _topic_meta # {}

\* The place of a statement in the order of the statements of a point.
Rank(stmt) ==
    CASE stmt \in {"INSERT topic", "UPDATE topic"} -> 1
      [] stmt = "INSERT data" -> 2
      [] stmt = "INSERT meta" -> 3

\* The statements of a point are passed to execute in the order topic,
\* data, meta.
TopicDataMetaOrder ==
    \A j, k \in DOMAIN executed :
        (j < k /\ executed[j].point = executed[k].point)
            => Rank(executed[j].stmt) < Rank(executed[k].stmt)

\* Every data row has a topic row with its topic_id.
DataHasTopic == \A d \in tables : \E r \in topic : r.id = d.topic_id

\* C26: per point, publish executes the statement on topic (when there is
\* one) before the statement on the data table, and that before the
\* statement on meta; so after historian_setup and publish calls that lose
\* the connection at any statement, every data row of every category table
\* has a topic row with the same topic_id.
C26_ReferentialIntegrity == DataHasTopic /\ TopicDataMetaOrder

\* The data statement of a point raised after its topic was inserted: the
\* topic has a row and no data row, while other data rows are stored.
C26_Witness ==
    /\ status = "ConnectionError"
    /\ Len(executed) = 2
    /\ executed[1] = [point |-> i, stmt |-> "INSERT topic"]
    /\ executed[2] = [point |-> i, stmt |-> "INSERT data"]
    /\ \E r \in topic : r.id = TopicId(x.topic)
    /\ \A d \in tables : d.topic_id # TopicId(x.topic)
    /\ tables # {}

\* A publish call on the empty list is in progress.
EmptyCall == to_publish_list = <<>> /\ pc \in {"ack", "finally"}

\* The call on the empty list passes no statement to execute, raises
\* nothing, and has reported once when it ends.
EmptyBatchReported ==
    EmptyCall =>
        /\ executed = <<>>
        /\ status = "ok"
        /\ cursor = "open"
        /\ handled = IF pc = "finally" THEN 1 ELSE 0

\* No step of the call on the empty list changes a row or a cache.
EmptyBatchWritesNothing ==
    (EmptyCall \/ (pc = "idle" /\ pc' = "ack"))
        => UNCHANGED <<storage, caches>>

\* C27: a publish call on an empty batch, once it has its cursor, executes
\* no statement, changes no row and no cache, and reports the batch as
\* handled exactly once.
C27_EmptyBatch == []EmptyBatchReported /\ [][EmptyBatchWritesNothing]_vars

\* With rows stored and names cached, a call on the empty list has reported
\* and is about to end.
C27_Witness ==
    /\ to_publish_list = <<>>
    /\ pc = "finally"
    /\ handled = 1
    /\ tables # {}
    /\ DOMAIN _topic_name_map # {}

====
